---- MODULE Spec2Model ----
(***************************************************************************)
(* Model of limiter.py: a call-rate limiter that keeps its history in a    *)
(* Berkeley-DB btree file (<dbpath>.db) keyed by the formatted insertion   *)
(* time and serialises callers with flock() on <dbpath>.lck.               *)
(*                                                                         *)
(* Time is measured in whole seconds; every time.time() call is a reading  *)
(* t >= clock chosen by the environment.  Keys are the byte strings that   *)
(* "%10.6f" produces and the btree orders them bytewise.                   *)
(*                                                                         *)
(* Spec          concurrent callers on a fresh store, without audit log    *)
(* SeqSpec       one caller making its calls one after the other           *)
(* FaultSpec     Spec plus Berkeley DB errors inside the critical section  *)
(* ScenarioSpec  one caller, max = 2, nseconds = 10, readings 0, 1, 5, 12  *)
(* AuditSpec     Spec with an audit log path passed by every caller        *)
(* AuditFaultSpec  AuditSpec plus failures of the audit log file           *)
(* CliSpec       runs of main() as a script, in concurrent processes       *)
(***************************************************************************)
EXTENDS Integers, Sequences, FiniteSets, TLC

\* ---- bounds of the model ----
\* callers, latest clock reading, largest max and nseconds, calls begun (Spec)
NumProcs == 2
MaxTime == 1
MaxMax == 2
MaxNseconds == 1
MaxCalls == 2
\* latest clock reading and calls begun (SeqSpec)
SeqMaxTime == 3
SeqCalls == 4
\* calls begun (ScenarioSpec)
ScenarioCalls == 4
\* command line: options per run, runs per behaviour
MaxArgs == 2
CliCalls == 2

Procs == 1..NumProcs
Times == 0..MaxTime
SeqTimes == 0..SeqMaxTime

\* the clock readings of the documented max=2 / nseconds=10 scenario
ScenarioTimes == {0, 1, 5, 12}

\* ---- "%10.6f": minimum field width and precision (limiter.py:65) ----
Width == 10
Precision == 6

VARIABLES
    clock,      \* latest value returned by time.time()
    cfg,        \* the max / nseconds / log every caller passes to limit()
    dbfile,     \* TRUE when <dbpath>.db exists
    db,         \* btree contents: function from key to payload
    holders,    \* open descriptors of <dbpath>.lck with LOCK_EX granted (by caller)
    pc,         \* position of each caller inside limit()
    args,       \* arguments of the caller's current limit() call
    tstamp,     \* Limiter.tstamp of the caller's Limiter object
    limit,      \* the local variable limit of limit()
    audit,      \* contents of the audit log file, as a sequence of writes
    hist,       \* one record per call that took the lock, in lock order
    cur,        \* index in hist of the caller's current call
    started,    \* number of limit() calls begun so far
    cli         \* outcome of the latest run of main()

vars == <<clock, cfg, dbfile, db, holders, pc, args, tstamp, limit,
          audit, hist, cur, started, cli>>

\* ------------------------------------------------------------------------
\* Key formatting, parsing and ordering
\* ------------------------------------------------------------------------
RECURSIVE DigitsOf(_)
DigitsOf(n) ==
    IF n < 10 THEN <<48 + n>> ELSE DigitsOf(n \div 10) \o <<48 + (n % 10)>>

Zeros(k) == [i \in 1..k |-> 48]
Spaces(k) == [i \in 1..k |-> 32]

\* "%10.6f" % t for a whole number of seconds t, as a sequence of byte codes
Format(t) ==
    LET body == DigitsOf(t) \o <<46>> \o Zeros(Precision)
    IN  IF Len(body) < Width THEN Spaces(Width - Len(body)) \o body ELSE body

RECURSIVE Pow10(_)
Pow10(k) == IF k = 0 THEN 1 ELSE 10 * Pow10(k - 1)

RECURSIVE DigitsValue(_)
DigitsValue(s) ==
    IF s = <<>> THEN 0
    ELSE 10 * DigitsValue(SubSeq(s, 1, Len(s) - 1)) + (s[Len(s)] - 48)

\* float(key), in units of 10^-Precision seconds
ParseFloat(key) ==
    LET first == CHOOSE i \in 1..Len(key) : key[i] # 32 /\ \A j \in 1..(i-1) : key[j] = 32
        dot   == CHOOSE i \in 1..Len(key) : key[i] = 46
    IN  DigitsValue(SubSeq(key, first, dot - 1)) * Pow10(Len(key) - dot)
          + DigitsValue(SubSeq(key, dot + 1, Len(key)))

\* bytewise order of two keys, the btree's default comparison
KeyLess(a, b) ==
    \/ \E i \in 1..Len(a) :
          /\ i <= Len(b)
          /\ a[i] < b[i]
          /\ \A j \in 1..(i-1) : a[j] = b[j]
    \/ Len(a) < Len(b) /\ \A j \in 1..Len(a) : a[j] = b[j]

\* ------------------------------------------------------------------------
\* Limiter.last and Limiter.maxpernseconds
\* ------------------------------------------------------------------------
\* cursor walk: log.last(), then log.previous() until count entries are read
RECURSIVE Walk(_, _, _)
Walk(d, keys, count) ==
    IF count = 0 \/ keys = {} THEN <<>>
    ELSE LET k == CHOOSE x \in keys : \A o \in keys \ {x} : KeyLess(o, x)
         IN  <<(<<k, d[k]>>)>> \o Walk(d, keys \ {k}, count - 1)

\* last() whose loop runs once more: while i <= count
LastOneMore(file, d, count) ==
    IF count = 0 THEN <<>>
    ELSE IF ~file THEN <<>>
    ELSE Walk(d, DOMAIN d, count + 1)

Last(file, d, count) ==
    IF count = 0 THEN <<>>
    ELSE IF ~file THEN <<>>
    ELSE Walk(d, DOMAIN d, count)

\* maxpernseconds that applies the age test to any non-empty history
MaxPerNSecondsNoLen(recent, max, nseconds, now) ==
    IF recent = <<>> THEN [raised |-> max = 0, over |-> FALSE]
    ELSE IF now * Pow10(Precision) - ParseFloat(recent[Len(recent)][1])
              > nseconds * Pow10(Precision)
         THEN [raised |-> FALSE, over |-> FALSE]
         ELSE [raised |-> FALSE, over |-> TRUE]

\* maxpernseconds with the length test written as <=
MaxPerNSecondsLenLe(recent, max, nseconds, now) ==
    IF Len(recent) <= max THEN [raised |-> FALSE, over |-> FALSE]
    ELSE IF now * Pow10(Precision) - ParseFloat(recent[Len(recent)][1])
              > nseconds * Pow10(Precision)
         THEN [raised |-> FALSE, over |-> FALSE]
         ELSE [raised |-> FALSE, over |-> TRUE]

\* maxpernseconds that takes the age of the newest entry, recent[0]
MaxPerNSecondsNewest(recent, max, nseconds, now) ==
    IF Len(recent) < max THEN [raised |-> FALSE, over |-> FALSE]
    ELSE IF recent = <<>> THEN [raised |-> TRUE, over |-> FALSE]
    ELSE IF now * Pow10(Precision) - ParseFloat(recent[1][1])
              > nseconds * Pow10(Precision)
         THEN [raised |-> FALSE, over |-> FALSE]
         ELSE [raised |-> FALSE, over |-> TRUE]

\* maxpernseconds with the age test written as >=
MaxPerNSecondsGe(recent, max, nseconds, now) ==
    IF Len(recent) < max THEN [raised |-> FALSE, over |-> FALSE]
    ELSE IF recent = <<>> THEN [raised |-> TRUE, over |-> FALSE]
    ELSE IF now * Pow10(Precision) - ParseFloat(recent[Len(recent)][1])
              >= nseconds * Pow10(Precision)
         THEN [raised |-> FALSE, over |-> FALSE]
         ELSE [raised |-> FALSE, over |-> TRUE]

\* result of maxpernseconds: raised is TRUE when recent[-1] fails on an empty list
MaxPerNSeconds(recent, max, nseconds, now) ==
    IF Len(recent) < max THEN [raised |-> FALSE, over |-> FALSE]
    ELSE IF recent = <<>> THEN [raised |-> TRUE, over |-> FALSE]
    ELSE IF now * Pow10(Precision) - ParseFloat(recent[Len(recent)][1])
              > nseconds * Pow10(Precision)
         THEN [raised |-> FALSE, over |-> FALSE]
         ELSE [raised |-> FALSE, over |-> TRUE]

\* an insert that keeps the payload already stored under the key
PutKeepFirst(d, key, entry) ==
    [k \in (DOMAIN d) \cup {key} |-> IF k \in DOMAIN d THEN d[k] ELSE entry]

\* log[key] = entry on a btree opened with flag 'c'
Put(d, key, entry) ==
    [k \in (DOMAIN d) \cup {key} |-> IF k = key THEN entry ELSE d[k]]

\* the writes Limiter.log(entry) makes: -1 stands for timestamp=None; the
\* test is `if not timestamp`, so None and 0 both give only the prefix
LogWrites(stamp, tag, entry, timestamp) ==
    IF timestamp = -1 \/ timestamp = 0
    THEN << [stamp |-> Format(stamp), text |-> "", payload |-> 0, nl |-> FALSE, call |-> 0] >>
    ELSE << [stamp |-> Format(timestamp), text |-> "", payload |-> 0, nl |-> FALSE, call |-> 0],
            [stamp |-> <<>>, text |-> tag, payload |-> entry, nl |-> FALSE, call |-> 0],
            [stamp |-> <<>>, text |-> "", payload |-> 0, nl |-> TRUE, call |-> 0] >>

\* ------------------------------------------------------------------------
\* State machine
\* ------------------------------------------------------------------------
NoCli == [exit |-> -1, error |-> "none", verdict |-> "none"]

NoArgs == [max |-> 0, nseconds |-> 0, entry |-> 0, log |-> FALSE]

Configs == [max : 0..MaxMax, nseconds : 0..MaxNseconds]

InitWith(c, l) ==
    /\ clock = 0
    /\ cfg = [max |-> c.max, nseconds |-> c.nseconds, log |-> l]
    /\ dbfile = FALSE
    /\ db = << >>
    /\ holders = {}
    /\ pc = [p \in Procs |-> "idle"]
    /\ args = [p \in Procs |-> NoArgs]
    /\ tstamp = [p \in Procs |-> 0]
    /\ limit = [p \in Procs |-> FALSE]
    /\ audit = << >>
    /\ hist = << >>
    /\ cur = [p \in Procs |-> 0]
    /\ started = 0
    /\ cli = NoCli

\* a fresh store; the callers pass no audit log path
Init == \E c \in Configs : InitWith(c, FALSE)

\* limit() up to the blocking flock(): Limiter(dbpath, log), which reads the
\* clock (t0) into tstamp, and the first two statements of lock(), which read
\* it again (t) into tstamp
Call(p, max, nseconds, entry, log, t0, t) ==
    /\ pc[p] = "idle"
    /\ t0 >= clock
    /\ t >= t0
    /\ clock' = t
    /\ started' = started + 1
    /\ args' = [args EXCEPT ![p] = [max |-> max, nseconds |-> nseconds,
                                    entry |-> entry, log |-> log]]
    /\ tstamp' = [tstamp EXCEPT ![p] = t]
    /\ limit' = [limit EXCEPT ![p] = FALSE]
    /\ pc' = [pc EXCEPT ![p] = "flock"]
    /\ UNCHANGED <<cli, cfg, dbfile, db, holders, audit, hist, cur>>

\* flock() that returns without waiting for the current holder
FlockNoWait(p) ==
    /\ pc[p] = "flock"
    /\ holders' = holders \cup {p}
    /\ hist' = Append(hist, [max |-> args[p].max,
                             nseconds |-> args[p].nseconds,
                             entry |-> args[p].entry,
                             now |-> -1, key |-> <<>>, result |-> "pending",
                             fault |-> "none"])
    /\ cur' = [cur EXCEPT ![p] = Len(hist) + 1]
    /\ pc' = [pc EXCEPT ![p] = "check"]
    /\ UNCHANGED <<cli, clock, cfg, dbfile, db, args, tstamp, limit, audit, started>>

\* flock(self.lckfd, LOCK_EX) returns
Flock(p) ==
    /\ pc[p] = "flock"
    /\ holders = {}
    /\ holders' = holders \cup {p}
    /\ hist' = Append(hist, [max |-> args[p].max,
                             nseconds |-> args[p].nseconds,
                             entry |-> args[p].entry,
                             now |-> -1, key |-> <<>>, result |-> "pending",
                             fault |-> "none"])
    /\ cur' = [cur EXCEPT ![p] = Len(hist) + 1]
    /\ pc' = [pc EXCEPT ![p] = "check"]
    /\ UNCHANGED <<cli, clock, cfg, dbfile, db, args, tstamp, limit, audit, started>>

\* l.maxpernseconds(max, nseconds) when last(max) returned recent
Evaluate(p, t, recent, fault) ==
    LET r == MaxPerNSeconds(recent, args[p].max, args[p].nseconds, t)
    IN  /\ pc' = [pc EXCEPT ![p] = IF r.raised THEN "raised"
                                   ELSE IF r.over THEN "unlock" ELSE "insert"]
        /\ hist' = [hist EXCEPT ![cur[p]].now = t,
                                ![cur[p]].fault = fault,
                                ![cur[p]].result =
                                    IF r.raised THEN "raised"
                                    ELSE IF r.over THEN "Denied" ELSE "pending"]

\* the check with the lock dropped as soon as the verdict is known
CheckUnlockEarly(p, t) ==
    /\ pc[p] = "check"
    /\ t >= clock
    /\ clock' = t
    /\ Evaluate(p, t, Last(dbfile, db, args[p].max), "none")
    /\ holders' = holders \ {p}
    /\ UNCHANGED <<cli, cfg, dbfile, db, args, tstamp, limit, audit, cur, started>>

\* the check with l.insert(entry) placed outside the if: an over-limit call
\* stores its entry and still returns False
CheckInsertAlways(p, t) ==
    /\ pc[p] = "check"
    /\ t >= clock
    /\ clock' = t
    /\ Evaluate(p, t, Last(dbfile, db, args[p].max), "none")
    /\ LET r == MaxPerNSeconds(Last(dbfile, db, args[p].max), args[p].max,
                               args[p].nseconds, t)
       IN  IF ~r.raised /\ r.over
           THEN dbfile' = TRUE /\ db' = Put(db, Format(t), args[p].entry)
           ELSE UNCHANGED <<dbfile, db>>
    /\ UNCHANGED <<cli, cfg, holders, args, tstamp, limit, audit, cur, started>>

\* the check with DBNoSuchFileError not caught by last(): the read of a store
\* file that does not exist leaves limit() with the error
CheckMissingRaises(p, t) ==
    /\ pc[p] = "check"
    /\ t >= clock
    /\ clock' = t
    /\ IF ~dbfile /\ args[p].max # 0
       THEN /\ pc' = [pc EXCEPT ![p] = "raised"]
            /\ hist' = [hist EXCEPT ![cur[p]].now = t,
                                    ![cur[p]].result = "raised"]
       ELSE Evaluate(p, t, Last(dbfile, db, args[p].max), "none")
    /\ UNCHANGED <<cli, cfg, dbfile, db, holders, args, tstamp, limit, audit, cur, started>>

\* if not l.maxpernseconds(max, nseconds): ... else fall through to unlock
Check(p, t) ==
    /\ pc[p] = "check"
    /\ t >= clock
    /\ clock' = t
    /\ Evaluate(p, t, Last(dbfile, db, args[p].max), "none")
    /\ UNCHANGED <<cli, cfg, dbfile, db, holders, args, tstamp, limit, audit, cur, started>>

\* l.insert(entry); limit = True
Insert(p, t1, t2) ==
    /\ pc[p] = "insert"
    /\ t1 >= clock
    /\ t2 >= t1
    /\ clock' = t2
    /\ tstamp' = [tstamp EXCEPT ![p] = t1]
    /\ dbfile' = TRUE
    /\ db' = Put(db, Format(t2), args[p].entry)
    /\ limit' = [limit EXCEPT ![p] = TRUE]
    /\ hist' = [hist EXCEPT ![cur[p]].key = Format(t2),
                            ![cur[p]].result = "Admitted"]
    /\ pc' = [pc EXCEPT ![p] = "unlock"]
    /\ UNCHANGED <<cli, cfg, holders, args, audit, cur, started>>

\* l.unlock()
Unlock(p) ==
    /\ pc[p] = "unlock"
    /\ holders' = holders \ {p}
    /\ pc' = [pc EXCEPT ![p] = "log"]
    /\ UNCHANGED <<cli, clock, cfg, dbfile, db, args, tstamp, limit, audit, hist,
                   cur, started>>

\* the writes of the call with index c in hist, appended to the file f
AppendWrites(f, ws, c) ==
    f \o [i \in 1..Len(ws) |-> [ws[i] EXCEPT !.call = c]]

\* the return with the log file opened for writing, not appending: the file
\* holds the writes of the latest call only
ReturnTruncating(p) ==
    /\ pc[p] = "log"
    /\ audit' = IF args[p].log
                THEN AppendWrites(<< >>,
                                  LogWrites(tstamp[p],
                                            IF limit[p] THEN "OK - " ELSE "Error - ",
                                            args[p].entry, -1),
                                  cur[p])
                ELSE audit
    /\ pc' = [pc EXCEPT ![p] = "idle"]
    /\ args' = [args EXCEPT ![p] = NoArgs]
    /\ tstamp' = [tstamp EXCEPT ![p] = 0]
    /\ limit' = [limit EXCEPT ![p] = FALSE]
    /\ cur' = [cur EXCEPT ![p] = 0]
    /\ UNCHANGED <<cli, clock, cfg, dbfile, db, holders, hist, started>>

\* if log: l.log(...); return limit.  The value returned is limit[p]; the
\* Limiter and the locals of the call are gone afterwards.
Return(p) ==
    /\ pc[p] = "log"
    /\ audit' = IF args[p].log
                THEN AppendWrites(audit,
                                  LogWrites(tstamp[p],
                                            IF limit[p] THEN "OK - " ELSE "Error - ",
                                            args[p].entry, -1),
                                  cur[p])
                ELSE audit
    /\ pc' = [pc EXCEPT ![p] = "idle"]
    /\ args' = [args EXCEPT ![p] = NoArgs]
    /\ tstamp' = [tstamp EXCEPT ![p] = 0]
    /\ limit' = [limit EXCEPT ![p] = FALSE]
    /\ cur' = [cur EXCEPT ![p] = 0]
    /\ UNCHANGED <<cli, clock, cfg, dbfile, db, holders, hist, started>>

\* the Limiter of a call that raised is reclaimed (or the process exits):
\* its lock descriptor is closed, which drops the flock
Finalize(p) ==
    /\ pc[p] = "raised"
    /\ holders' = holders \ {p}
    /\ pc' = [pc EXCEPT ![p] = "idle"]
    /\ args' = [args EXCEPT ![p] = NoArgs]
    /\ tstamp' = [tstamp EXCEPT ![p] = 0]
    /\ limit' = [limit EXCEPT ![p] = FALSE]
    /\ cur' = [cur EXCEPT ![p] = 0]
    /\ UNCHANGED <<cli, clock, cfg, dbfile, db, audit, hist, started>>

Next ==
    \E p \in Procs :
        \/ /\ started < MaxCalls
           /\ \E t0 \in Times, t \in Times :
                 Call(p, cfg.max, cfg.nseconds, started + 1, cfg.log, t0, t)
        \/ Flock(p)
        \/ \E t \in Times : Check(p, t)
        \/ \E t1 \in Times, t2 \in Times : Insert(p, t1, t2)
        \/ Unlock(p)
        \/ Return(p)
        \/ Finalize(p)

Spec == Init /\ [][Next]_vars

\* ------------------------------------------------------------------------
\* Store failures: Berkeley DB raising inside the critical section
\* ------------------------------------------------------------------------
\* bsddb.btopen(self.db, "r") raises an error other than DBNoSuchFileError,
\* whether the store file exists or not: it is not caught by last() and
\* leaves limit() before unlock().  last(0) returns before it opens the file.
CheckOpenFail(p, t) ==
    /\ pc[p] = "check"
    /\ args[p].max # 0
    /\ t >= clock
    /\ clock' = t
    /\ pc' = [pc EXCEPT ![p] = "raised"]
    /\ hist' = [hist EXCEPT ![cur[p]].now = t,
                            ![cur[p]].fault = "open",
                            ![cur[p]].result = "raised"]
    /\ UNCHANGED <<cli, cfg, dbfile, db, holders, args, tstamp, limit, audit, cur, started>>

\* log.last() or log.previous() raises a bsddb.error where an entry exists:
\* last() catches it and returns the k entries read so far
CheckReadFail(p, t, k) ==
    /\ pc[p] = "check"
    /\ t >= clock
    /\ k < Len(Last(dbfile, db, args[p].max))
    /\ clock' = t
    /\ Evaluate(p, t, SubSeq(Last(dbfile, db, args[p].max), 1, k), "read")
    /\ UNCHANGED <<cli, cfg, dbfile, db, holders, args, tstamp, limit, audit, cur, started>>

\* bsddb.btopen(self.db) in insert() raises: no file is created, nothing is
\* stored and the error leaves limit() before unlock()
InsertFail(p, t1) ==
    /\ pc[p] = "insert"
    /\ t1 >= clock
    /\ clock' = t1
    /\ tstamp' = [tstamp EXCEPT ![p] = t1]
    /\ pc' = [pc EXCEPT ![p] = "raised"]
    /\ hist' = [hist EXCEPT ![cur[p]].fault = "create",
                            ![cur[p]].result = "raised"]
    /\ UNCHANGED <<cli, cfg, dbfile, db, holders, args, limit, audit, cur, started>>

\* log[key] = entry raises after btopen(self.db) has opened the file, which
\* it creates when missing, and after the key has been formatted from a
\* second clock reading: the file exists, no entry is stored and the error
\* leaves limit() before unlock()
InsertWriteFail(p, t1, t2) ==
    /\ pc[p] = "insert"
    /\ t1 >= clock
    /\ t2 >= t1
    /\ clock' = t2
    /\ tstamp' = [tstamp EXCEPT ![p] = t1]
    /\ dbfile' = TRUE
    /\ pc' = [pc EXCEPT ![p] = "raised"]
    /\ hist' = [hist EXCEPT ![cur[p]].fault = "write",
                            ![cur[p]].result = "raised"]
    /\ UNCHANGED <<cli, cfg, db, holders, args, limit, audit, cur, started>>

\* log.sync() raises after log[key] = entry succeeded: the error leaves
\* limit() before unlock(); the file on disk has no new entry, which waits
\* in the cache of the DB handle under the key recorded in hist
InsertSyncFail(p, t1, t2) ==
    /\ pc[p] = "insert"
    /\ t1 >= clock
    /\ t2 >= t1
    /\ clock' = t2
    /\ tstamp' = [tstamp EXCEPT ![p] = t1]
    /\ dbfile' = TRUE
    /\ pc' = [pc EXCEPT ![p] = "raised"]
    /\ hist' = [hist EXCEPT ![cur[p]].key = Format(t2),
                            ![cur[p]].fault = "sync",
                            ![cur[p]].result = "raised"]
    /\ UNCHANGED <<cli, cfg, db, holders, args, limit, audit, cur, started>>

\* log.close() raises after log.sync() has written the entry: the entry is
\* stored and the error leaves limit() before unlock()
InsertCloseFail(p, t1, t2) ==
    /\ pc[p] = "insert"
    /\ t1 >= clock
    /\ t2 >= t1
    /\ clock' = t2
    /\ tstamp' = [tstamp EXCEPT ![p] = t1]
    /\ dbfile' = TRUE
    /\ db' = Put(db, Format(t2), args[p].entry)
    /\ pc' = [pc EXCEPT ![p] = "raised"]
    /\ hist' = [hist EXCEPT ![cur[p]].key = Format(t2),
                            ![cur[p]].fault = "close",
                            ![cur[p]].result = "raised"]
    /\ UNCHANGED <<cli, cfg, holders, args, limit, audit, cur, started>>

\* the locals of a call that raised in log.sync() are reclaimed: the DB
\* handle of insert() is closed first, which writes the cached entry, then
\* the Limiter, whose lock descriptor is closed.  When the failure lasts
\* until the handle is closed nothing is written: that is Finalize.
FinalizeFlush(p) ==
    /\ pc[p] = "raised"
    /\ cur[p] # 0
    /\ hist[cur[p]].fault = "sync"
    /\ db' = Put(db, hist[cur[p]].key, args[p].entry)
    /\ holders' = holders \ {p}
    /\ pc' = [pc EXCEPT ![p] = "idle"]
    /\ args' = [args EXCEPT ![p] = NoArgs]
    /\ tstamp' = [tstamp EXCEPT ![p] = 0]
    /\ limit' = [limit EXCEPT ![p] = FALSE]
    /\ cur' = [cur EXCEPT ![p] = 0]
    /\ UNCHANGED <<cli, clock, cfg, dbfile, audit, hist, started>>

FaultNext ==
    \/ Next
    \/ \E p \in Procs :
          \/ \E t \in Times : CheckOpenFail(p, t)
          \/ \E t \in Times, k \in 0..MaxMax : CheckReadFail(p, t, k)
          \/ \E t1 \in Times : InsertFail(p, t1)
          \/ \E t1 \in Times, t2 \in Times : InsertWriteFail(p, t1, t2)
          \/ \E t1 \in Times, t2 \in Times : InsertSyncFail(p, t1, t2)
          \/ \E t1 \in Times, t2 \in Times : InsertCloseFail(p, t1, t2)
          \/ FinalizeFlush(p)

FaultSpec == Init /\ [][FaultNext]_vars

\* ------------------------------------------------------------------------
\* One caller making its calls one after the other
\* ------------------------------------------------------------------------
SeqNext ==
    \/ /\ started < SeqCalls
       /\ \E t0 \in SeqTimes, t \in SeqTimes :
             Call(1, cfg.max, cfg.nseconds, started + 1, cfg.log, t0, t)
    \/ Flock(1)
    \/ \E t \in SeqTimes : Check(1, t)
    \/ \E t1 \in SeqTimes, t2 \in SeqTimes : Insert(1, t1, t2)
    \/ Unlock(1)
    \/ Return(1)
    \/ Finalize(1)

\* the window may be zero or negative as well
SeqConfigs == [max : 0..MaxMax, nseconds : (-1)..MaxNseconds]

SeqInit == \E c \in SeqConfigs : InitWith(c, FALSE)

SeqSpec == SeqInit /\ [][SeqNext]_vars

\* ------------------------------------------------------------------------
\* One caller with max = 2 and nseconds = 10 on a fresh store; with max >= 1
\* and no store failure no call raises, so there is nothing to finalize
\* ------------------------------------------------------------------------
ScenarioInit == \E l \in BOOLEAN : InitWith([max |-> 2, nseconds |-> 10], l)

ScenarioNext ==
    \/ /\ started < ScenarioCalls
       /\ \E t0 \in ScenarioTimes, t \in ScenarioTimes :
             Call(1, cfg.max, cfg.nseconds, started + 1, cfg.log, t0, t)
    \/ Flock(1)
    \/ \E t \in ScenarioTimes : Check(1, t)
    \/ \E t1 \in ScenarioTimes, t2 \in ScenarioTimes : Insert(1, t1, t2)
    \/ Unlock(1)
    \/ Return(1)

ScenarioSpec == ScenarioInit /\ [][ScenarioNext]_vars


\* ------------------------------------------------------------------------
\* Every caller passes an audit log path
\* ------------------------------------------------------------------------
AuditInit == \E c \in Configs : InitWith(c, TRUE)

AuditSpec == AuditInit /\ [][Next]_vars

\* ------------------------------------------------------------------------
\* Failures of the audit log file
\* ------------------------------------------------------------------------
\* Limiter(dbpath, log): open(log, "a") raises IOError inside __init__, which
\* has no try around it; the error leaves limit() before l.lock()
CallLogOpenFail(p, max, nseconds, entry, t0) ==
    /\ pc[p] = "idle"
    /\ t0 >= clock
    /\ clock' = t0
    /\ started' = started + 1
    /\ args' = [args EXCEPT ![p] = [max |-> max, nseconds |-> nseconds,
                                    entry |-> entry, log |-> TRUE]]
    /\ tstamp' = [tstamp EXCEPT ![p] = t0]
    /\ pc' = [pc EXCEPT ![p] = "raised"]
    /\ UNCHANGED <<cli, cfg, dbfile, db, holders, limit, audit, hist, cur>>

\* l.log(...) when the write raises: the bare except in log() swallows the
\* error, nothing reaches the file and limit() returns its verdict
ReturnLogFail(p) ==
    /\ pc[p] = "log"
    /\ args[p].log
    /\ pc' = [pc EXCEPT ![p] = "idle"]
    /\ args' = [args EXCEPT ![p] = NoArgs]
    /\ tstamp' = [tstamp EXCEPT ![p] = 0]
    /\ limit' = [limit EXCEPT ![p] = FALSE]
    /\ cur' = [cur EXCEPT ![p] = 0]
    /\ UNCHANGED <<cli, clock, cfg, dbfile, db, holders, audit, hist, started>>

AuditFaultNext ==
    \/ Next
    \/ \E p \in Procs :
          \/ /\ started < MaxCalls
             /\ \E t0 \in Times :
                   CallLogOpenFail(p, cfg.max, cfg.nseconds, started + 1, t0)
          \/ ReturnLogFail(p)

AuditFaultSpec == AuditInit /\ [][AuditFaultNext]_vars

\* ------------------------------------------------------------------------
\* The sequential reference: limit() run to completion on a store
\* ------------------------------------------------------------------------
SeqLimit(st, rec) ==
    LET r == MaxPerNSeconds(Last(st.file, st.d, rec.max), rec.max, rec.nseconds, rec.now)
    IN  IF r.raised THEN [file |-> st.file, d |-> st.d, result |-> "raised"]
        ELSE IF r.over THEN [file |-> st.file, d |-> st.d, result |-> "Denied"]
        ELSE [file |-> TRUE,
              d |-> Put(st.d, IF rec.key = <<>> THEN Format(rec.now) ELSE rec.key,
                        rec.entry),
              result |-> "Admitted"]

\* the first n calls of hist run one after the other on a fresh store
RECURSIVE SeqRun(_)
SeqRun(n) ==
    IF n = 0 THEN [file |-> FALSE, d |-> << >>, results |-> << >>]
    ELSE LET prev == SeqRun(n - 1)
             r == SeqLimit(prev, hist[n])
         IN  [file |-> r.file, d |-> r.d, results |-> Append(prev.results, r.result)]

\* ------------------------------------------------------------------------
\* The command line: main() run as a script by concurrent processes
\* ------------------------------------------------------------------------
DefaultMax == 3
DefaultNseconds == 900

\* an element of argv[1:]: -h, -f PATH, -q, -l PATH, -m TEXT, -t TEXT, or an
\* option getopt does not know (x); bad marks a TEXT that int() rejects
ArgTokens ==
    {[opt |-> o, val |-> 0, bad |-> FALSE] : o \in {"h", "f", "q", "l", "x"}}
    \cup {[opt |-> "m", val |-> v, bad |-> FALSE] : v \in 0..MaxMax}
    \cup {[opt |-> "t", val |-> v, bad |-> FALSE] : v \in 0..MaxNseconds}
    \cup {[opt |-> o, val |-> 0, bad |-> TRUE] : o \in {"m", "t"}}

Argvs == UNION {[1..n -> ArgTokens] : n \in 0..MaxArgs}

\* the for loop over opts: it stops at -h (sys.exit(0)) and at an int() that
\* raises ValueError
RECURSIVE ParseOpts(_, _, _)
ParseOpts(argv, i, acc) ==
    IF i > Len(argv) THEN acc
    ELSE LET o == argv[i]
         IN  IF o.opt = "h" THEN [acc EXCEPT !.stop = "help"]
             ELSE IF o.opt \in {"m", "t"} /\ o.bad
                  THEN [acc EXCEPT !.stop = "ValueError"]
             ELSE ParseOpts(argv, i + 1,
                     IF o.opt = "f" THEN [acc EXCEPT !.dbpath = TRUE]
                     ELSE IF o.opt = "m" THEN [acc EXCEPT !.max = o.val]
                     ELSE IF o.opt = "t" THEN [acc EXCEPT !.nseconds = o.val]
                     ELSE IF o.opt = "l" THEN [acc EXCEPT !.log = TRUE]
                     ELSE [acc EXCEPT !.quiet = TRUE])

\* the options main() has read from argv
Opts(argv) ==
    ParseOpts(argv, 1, [dbpath |-> FALSE, max |-> DefaultMax,
                        nseconds |-> DefaultNseconds, log |-> FALSE,
                        quiet |-> FALSE, stop |-> "none"])

\* main(argv) of process p up to its exit on an argument error or up to the
\* blocking flock() inside limit(): entry is the positional text, t0 and t
\* are the clock readings of Limiter() and lock()
MainCall(p, argv, entry, t0, t) ==
    /\ pc[p] = "idle"
    /\ started' = started + 1
    /\ IF \E i \in 1..Len(argv) : argv[i].opt = "x"
       THEN \* getopt.error -> Usage -> return 2
            /\ cli' = [exit |-> 2, error |-> "usage", verdict |-> "none"]
            /\ UNCHANGED <<clock, args, tstamp, limit, pc>>
       ELSE IF Opts(argv).stop = "help"
       THEN \* print __doc__; sys.exit(0)
            /\ cli' = [exit |-> 0, error |-> "help", verdict |-> "none"]
            /\ UNCHANGED <<clock, args, tstamp, limit, pc>>
       ELSE IF Opts(argv).stop = "ValueError"
       THEN \* int(a) raises; no except clause matches: traceback, status 1
            /\ cli' = [exit |-> 1, error |-> "badint", verdict |-> "none"]
            /\ UNCHANGED <<clock, args, tstamp, limit, pc>>
       ELSE IF ~Opts(argv).dbpath
       THEN \* limit(None, ...): None + ".db" raises TypeError, which the
            \* last except clause answers with print __doc__; sys.exit(0)
            /\ cli' = [exit |-> 0, error |-> "nofile", verdict |-> "none"]
            /\ UNCHANGED <<clock, args, tstamp, limit, pc>>
       ELSE \* ret = limit(dbpath, entry, max, nseconds, log)
            /\ t0 >= clock
            /\ t >= t0
            /\ clock' = t
            /\ args' = [args EXCEPT ![p] = [max |-> Opts(argv).max,
                                            nseconds |-> Opts(argv).nseconds,
                                            entry |-> entry,
                                            log |-> Opts(argv).log]]
            /\ tstamp' = [tstamp EXCEPT ![p] = t]
            /\ limit' = [limit EXCEPT ![p] = FALSE]
            /\ pc' = [pc EXCEPT ![p] = "flock"]
            /\ UNCHANGED cli
    /\ UNCHANGED <<cfg, dbfile, db, holders, audit, hist, cur>>

\* limit() writes its audit prefix and returns ret to main(), which returns
\* 0 for True and 1 for False; sys.exit() carries it out of the process
MainReturn(p) ==
    /\ pc[p] = "log"
    /\ audit' = IF args[p].log
                THEN AppendWrites(audit,
                                  LogWrites(tstamp[p],
                                            IF limit[p] THEN "OK - " ELSE "Error - ",
                                            args[p].entry, -1),
                                  cur[p])
                ELSE audit
    /\ cli' = [exit |-> IF limit[p] THEN 0 ELSE 1, error |-> "none",
               verdict |-> IF limit[p] THEN "Admitted" ELSE "Denied"]
    /\ pc' = [pc EXCEPT ![p] = "idle"]
    /\ args' = [args EXCEPT ![p] = NoArgs]
    /\ tstamp' = [tstamp EXCEPT ![p] = 0]
    /\ limit' = [limit EXCEPT ![p] = FALSE]
    /\ cur' = [cur EXCEPT ![p] = 0]
    /\ UNCHANGED <<clock, cfg, dbfile, db, holders, hist, started>>

\* IndexError out of limit(): no except clause of main() matches, the
\* interpreter prints the traceback and exits with status 1; the exit of the
\* process closes the lock descriptor, which drops the flock
MainRaised(p) ==
    /\ pc[p] = "raised"
    /\ cli' = [exit |-> 1, error |-> "raised", verdict |-> "none"]
    /\ holders' = holders \ {p}
    /\ pc' = [pc EXCEPT ![p] = "idle"]
    /\ args' = [args EXCEPT ![p] = NoArgs]
    /\ tstamp' = [tstamp EXCEPT ![p] = 0]
    /\ limit' = [limit EXCEPT ![p] = FALSE]
    /\ cur' = [cur EXCEPT ![p] = 0]
    /\ UNCHANGED <<clock, cfg, dbfile, db, audit, hist, started>>

CliInit == InitWith([max |-> DefaultMax, nseconds |-> DefaultNseconds], FALSE)

\* script runs in separate processes: between MainCall and MainReturn a run
\* takes the steps of limit(), interleaved with those of the other runs
CliNext ==
    \E p \in Procs :
        \/ /\ started < CliCalls
           /\ \E argv \in Argvs, t0 \in Times, t \in Times :
                 MainCall(p, argv, started + 1, t0, t)
        \/ Flock(p)
        \/ \E t \in Times : Check(p, t)
        \/ \E t1 \in Times, t2 \in Times : Insert(p, t1, t2)
        \/ Unlock(p)
        \/ MainReturn(p)
        \/ MainRaised(p)

CliSpec == CliInit /\ [][CliNext]_vars

\* ------------------------------------------------------------------------
\* Properties
\* ------------------------------------------------------------------------
AdmIdx == {i \in 1..Len(hist) : hist[i].result = "Admitted"}
Decided(i) == hist[i].result # "pending"
InCritical(p) == pc[p] \in {"check", "insert", "unlock"}
Micros(t) == t * Pow10(Precision)

\* C1: with max >= 1, any max+1 Admitted calls span more than nseconds
\* (the latest is more than nseconds after the earliest).
RateGuarantee ==
    cfg.max >= 1 =>
        \A i \in AdmIdx, j \in AdmIdx :
            (i < j /\ Cardinality({k \in AdmIdx : i <= k /\ k <= j}) >= cfg.max + 1)
                => hist[j].now - hist[i].now > cfg.nseconds

\* C2: at most one call is between lock() and unlock(); a call is in its
\* read-evaluate-write sequence only while it holds the lock, and every
\* decision read and every store write is a step of the lock holder.
OneInCritical ==
    /\ Cardinality(holders) <= 1
    /\ Cardinality({p \in Procs : InCritical(p)}) <= 1
    /\ \A p \in Procs : InCritical(p) => p \in holders

MutualExclusion ==
    /\ OneInCritical
    /\ [][/\ OneInCritical'
          /\ \A p \in Procs :
               (pc[p] \in {"check", "insert"} /\ pc'[p] # pc[p]) => holders = {p}
          /\ (db' # db \/ dbfile' # dbfile) =>
               \E p \in Procs : holders = {p} /\ pc[p] = "insert" /\ pc'[p] = "unlock"
         ]_vars

MutualExclusionWitness ==
    \E p \in Procs, q \in Procs :
        /\ p # q
        /\ pc[p] = "insert"
        /\ holders = {p}
        /\ pc[q] = "flock"

\* C3: the verdicts and the store are those of running the calls one at a
\* time in the order in which they acquired the lock.
SequentialEquivalence ==
    LET n == CHOOSE k \in 0..Len(hist) :
                 /\ \A j \in 1..k : Decided(j)
                 /\ k < Len(hist) => ~Decided(k + 1)
        run == SeqRun(n)
    IN  /\ \A i \in 1..n : hist[i].result = run.results[i]
        /\ n = Len(hist) => (db = run.d /\ dbfile = run.file)

\* two overlapping calls: the second to take the lock had entered lock()
\* before the first made its decision, and is Denied on the first one's entry
SequentialEquivalenceWitness ==
    \E q \in Procs :
        /\ Len(hist) = 2
        /\ cur[q] = 2
        /\ pc[q] = "unlock"
        /\ hist[1].result = "Admitted"
        /\ hist[2].result = "Denied"
        /\ tstamp[q] < hist[1].now

\* C4: on a fresh store with max = M >= 1 each of the first M calls is
\* Admitted (it returns True) whatever the clock readings, and its entry is in
\* the store under its key (with its payload while the call holds the lock).
FirstMAdmitted ==
    \A i \in 1..Len(hist) :
        (cfg.max >= 1 /\ i <= cfg.max) =>
            /\ hist[i].result \in {"pending", "Admitted"}
            /\ \A p \in Procs : (cur[p] = i /\ pc[p] = "log") => limit[p]
            /\ hist[i].result = "Admitted" =>
                  /\ dbfile
                  /\ hist[i].key \in DOMAIN db
                  /\ \A p \in Procs : (cur[p] = i /\ pc[p] = "unlock")
                        => db[hist[i].key] = hist[i].entry

FirstMAdmittedWitness ==
    /\ cfg.max = 2
    /\ cfg.nseconds = 1
    /\ Len(hist) = 2
    /\ hist[1].result = "Admitted"
    /\ hist[2].result = "Admitted"
    /\ hist[1].key = hist[2].key
    /\ \E p \in Procs : cur[p] = 2 /\ pc[p] = "log" /\ limit[p]

\* C5: after M Admitted calls on a fresh store with max = M, call M+1 is
\* Denied exactly when its time is within nseconds of the timestamp of call 1.
NextCallDeniedIffWithin ==
    (cfg.max >= 1 /\ Len(hist) >= cfg.max + 1 /\ Decided(cfg.max + 1)
       /\ \A i \in 1..cfg.max : hist[i].result = "Admitted") =>
        LET c == hist[cfg.max + 1]
        IN  /\ c.result \in {"Admitted", "Denied"}
            /\ c.result = "Denied" <=>
                  Micros(c.now) - ParseFloat(hist[1].key) <= Micros(cfg.nseconds)

\* C6: a Denied call leaves the store as it was: every change of the store is
\* the insert of a call that becomes Admitted, and a call that follows a
\* Denied call at the same clock reading is Denied again.
RetryDenied ==
    \A i \in 1..Len(hist) :
        (i > 1 /\ hist[i - 1].result = "Denied" /\ Decided(i)
           /\ hist[i].max = hist[i - 1].max
           /\ hist[i].nseconds = hist[i - 1].nseconds
           /\ hist[i].now = hist[i - 1].now)
            => hist[i].result = "Denied"

DeniedLeavesStore ==
    /\ RetryDenied
    /\ [][/\ RetryDenied'
          /\ (db' # db \/ dbfile' # dbfile) =>
               \E p \in Procs : /\ pc[p] = "insert"
                                /\ hist[cur[p]].result = "pending"
                                /\ hist'[cur[p]].result = "Admitted"
          /\ \A p \in Procs :
               (pc[p] = "check" /\ pc'[p] = "unlock") => (db' = db /\ dbfile' = dbfile)
         ]_vars

DeniedLeavesStoreWitness ==
    /\ Len(hist) >= 2
    /\ hist[Len(hist) - 1].result = "Denied"
    /\ hist[Len(hist)].result = "Denied"
    /\ hist[Len(hist)].now = hist[Len(hist) - 1].now
    /\ \E p \in Procs : cur[p] = Len(hist) /\ pc[p] = "log" /\ ~limit[p]

\* C7: with max=2 and nseconds=10 on a fresh store, calls at t=0, 1, 5, 12 are
\* Admitted, Admitted, Denied, Admitted and the store then holds exactly the
\* entries with timestamps 0, 1 and 12.
ScenarioAt(i, t) ==
    /\ hist[i].now = t
    /\ hist[i].result = "Admitted" => hist[i].key = Format(t)

ScenarioTrace ==
    (/\ cfg.max = 2 /\ cfg.nseconds = 10
     /\ Len(hist) = 4
     /\ \A i \in 1..4 : Decided(i)
     /\ ScenarioAt(1, 0) /\ ScenarioAt(2, 1) /\ ScenarioAt(3, 5) /\ ScenarioAt(4, 12))
        => /\ hist[1].result = "Admitted"
           /\ hist[2].result = "Admitted"
           /\ hist[3].result = "Denied"
           /\ hist[4].result = "Admitted"
           /\ DOMAIN db = {Format(0), Format(1), Format(12)}
           /\ {ParseFloat(k) : k \in DOMAIN db} = {Micros(0), Micros(1), Micros(12)}

ScenarioTraceWitness ==
    /\ cfg.max = 2 /\ cfg.nseconds = 10
    /\ Len(hist) = 4
    /\ ScenarioAt(1, 0) /\ ScenarioAt(2, 1) /\ ScenarioAt(3, 5) /\ ScenarioAt(4, 12)
    /\ hist[4].result = "Admitted"
    /\ pc[1] = "idle"

\* C8: a call that has left limit(), by returning or by raising, no longer
\* holds the lock.
GuaranteedRelease ==
    \A p \in Procs : pc[p] \in {"idle", "raised"} => p \notin holders

\* C9: with max = 0 every call is Denied, stores nothing and does not raise.
MaxZeroDenied ==
    cfg.max = 0 =>
        /\ db = << >>
        /\ \A i \in 1..Len(hist) : Decided(i) => hist[i].result = "Denied"
        /\ \A p \in Procs : pc[p] # "raised"

\* C10: a call that met a store failure returns neither Admitted nor Denied:
\* once decided, it has ended by raising.
StoreFailureIsHard ==
    \A i \in 1..Len(hist) :
        hist[i].fault # "none" => hist[i].result \in {"pending", "raised"}

\* C11: while the store file does not exist last(k) returns the empty list
\* for every k; with max >= 1 the first call to take the lock is Admitted,
\* and once it has inserted the store file exists and holds exactly one
\* entry, the payload of that call under its key.
MissingStoreIsEmpty ==
    /\ ~dbfile => \A k \in 0..(MaxMax + 1) : Last(dbfile, db, k) = << >>
    /\ (cfg.max >= 1 /\ Len(hist) >= 1) =>
          /\ hist[1].result \in {"pending", "Admitted"}
          /\ hist[1].result = "pending" => ~dbfile
    /\ (cfg.max >= 1 /\ Len(hist) = 1 /\ hist[1].result = "Admitted") =>
          /\ dbfile
          /\ DOMAIN db = {hist[1].key}
          /\ db[hist[1].key] = hist[1].entry

\* the first call has been Admitted on a store that did not exist and has
\* released the lock; no other call has taken the lock yet
MissingStoreIsEmptyWitness ==
    /\ cfg.max >= 1
    /\ Len(hist) = 1
    /\ hist[1].result = "Admitted"
    /\ dbfile
    /\ Cardinality(DOMAIN db) = 1
    /\ \E p \in Procs : cur[p] = 1 /\ pc[p] = "log" /\ limit[p]

\* calls that took the lock and have returned a verdict to their caller
Returned ==
    {i \in 1..Len(hist) : /\ hist[i].result \in {"Admitted", "Denied"}
                          /\ \A p \in Procs : cur[p] # i}

\* C12: with an audit log path the file consists of complete lines, one for
\* each call that has returned: the timestamp prefix, then "OK - " for an
\* Admitted and "Error - " for a Denied call followed by the payload of that
\* call, then the newline.
AuditLines ==
    cfg.log =>
        /\ Len(audit) = 3 * Cardinality(Returned)
        /\ \A j \in 1..Cardinality(Returned) :
              LET c == audit[3 * j - 2].call
              IN  /\ c \in Returned
                  /\ audit[3 * j - 2].stamp # << >>
                  /\ audit[3 * j - 1].call = c
                  /\ audit[3 * j - 1].text =
                        (IF hist[c].result = "Admitted" THEN "OK - " ELSE "Error - ")
                  /\ audit[3 * j - 1].payload = hist[c].entry
                  /\ audit[3 * j].call = c
                  /\ audit[3 * j].nl

\* C13: a failure of the audit log never reaches the caller: with max >= 1
\* and a healthy store no call of limit() ends with an error, whether the
\* log file cannot be opened or a write to it fails, and the verdicts and
\* the store are those of the same calls made without an audit log.
AuditFailureHarmless ==
    cfg.max >= 1 =>
        /\ \A p \in Procs : pc[p] # "raised"
        /\ \A i \in 1..Len(hist) :
              Decided(i) => hist[i].result = SeqRun(i).results[i]

\* C14: the exit status of the latest run of main() is 0 when the call was
\* Admitted, 1 when it was Denied, and 2 when the run ended on an argument
\* error (an option getopt rejects, no store path, a max or window text that
\* is not an integer).
ExitCodes ==
    /\ cli.verdict = "Admitted" => cli.exit = 0
    /\ cli.verdict = "Denied" => cli.exit = 1
    /\ cli.error \in {"usage", "nofile", "badint"} => cli.exit = 2

\* p has made its decision and the store is still the one it decided on
JustDecided(p) == pc[p] = "insert" \/ (pc[p] = "unlock" /\ ~limit[p])

\* the key with exactly m - 1 later timestamps in the store d
MaxthKey(d, m) ==
    CHOOSE k \in DOMAIN d :
        Cardinality({o \in DOMAIN d : ParseFloat(o) > ParseFloat(k)}) = m - 1

\* microseconds between the decision reading of p and the max-th most recent
\* entry of the store
Elapsed(p) ==
    Micros(hist[cur[p]].now) - ParseFloat(MaxthKey(db, args[p].max))

\* C15: for max >= 1 the store is found not over limit when it holds fewer
\* than max entries; otherwise the verdict depends only on the entry with
\* max - 1 later timestamps: not over limit when the time elapsed since it
\* exceeds nseconds, over limit when it is at most nseconds (equality too).
WindowEvaluation ==
    \A p \in Procs :
        (JustDecided(p) /\ args[p].max >= 1) =>
            IF Cardinality(DOMAIN db) < args[p].max
            THEN pc[p] = "insert"
            ELSE (pc[p] = "unlock") <=> (Elapsed(p) <= Micros(args[p].nseconds))

\* a call found over limit exactly on the boundary, the newest entry being
\* younger than the max-th most recent one
WindowEvaluationWitness ==
    /\ pc[1] = "unlock" /\ ~limit[1]
    /\ args[1].max = 2
    /\ args[1].nseconds = 1
    /\ Cardinality(DOMAIN db) >= 2
    /\ Elapsed(1) = Micros(1)
    /\ \E k \in DOMAIN db : Micros(hist[cur[1]].now) = ParseFloat(k)

\* C16 as stated: with nseconds <= 0 and at least max entries a call made
\* strictly later than the max-th most recent entry is over limit, and a
\* call found not over limit is simultaneous with that entry.
ZeroWindowDenies ==
    \A p \in Procs :
        (/\ JustDecided(p)
         /\ args[p].max >= 1
         /\ args[p].nseconds <= 0
         /\ Cardinality(DOMAIN db) >= args[p].max) =>
            /\ Elapsed(p) > 0 => pc[p] = "unlock"
            /\ pc[p] = "insert" => Elapsed(p) = 0

\* C16: with nseconds <= 0 and at least max entries a call made strictly
\* later than the max-th most recent entry is not over limit; a call
\* simultaneous with that entry is over limit when nseconds = 0 and not over
\* limit when nseconds < 0.
ZeroWindowAdmitsLater ==
    \A p \in Procs :
        (/\ JustDecided(p)
         /\ args[p].max >= 1
         /\ args[p].nseconds <= 0
         /\ Cardinality(DOMAIN db) >= args[p].max) =>
            /\ Elapsed(p) > 0 => pc[p] = "insert"
            /\ (Elapsed(p) = 0 /\ args[p].nseconds = 0) => pc[p] = "unlock"
            /\ (Elapsed(p) = 0 /\ args[p].nseconds < 0) => pc[p] = "insert"

\* with nseconds = 0 and a full history, a call made one second after the
\* max-th most recent entry has been found not over limit
ZeroWindowAdmitsLaterWitness ==
    /\ pc[1] = "insert"
    /\ args[1].max = 2
    /\ args[1].nseconds = 0
    /\ Cardinality(DOMAIN db) >= 2
    /\ Elapsed(1) = Micros(1)

\* r holds min(count, n) entries of the store d, newest first, and every
\* entry left out is older than all of r
IsNewest(r, d, count) ==
    /\ Len(r) = (IF count < Cardinality(DOMAIN d) THEN count
                              ELSE Cardinality(DOMAIN d))
    /\ \A i \in 1..Len(r) : r[i][1] \in DOMAIN d /\ r[i][2] = d[r[i][1]]
    /\ \A i \in 1..Len(r) : \A j \in (i + 1)..Len(r) :
          ParseFloat(r[i][1]) > ParseFloat(r[j][1])
    /\ \A o \in DOMAIN d \ {r[i][1] : i \in 1..Len(r)} :
          \A i \in 1..Len(r) : ParseFloat(o) < ParseFloat(r[i][1])

LastIsNewestIn(file, d) ==
    \A count \in 1..(MaxMax + 1) :
        \A r \in {Last(file, d, count)} : IsNewest(r, d, count)

\* C17: for count >= 1 last(count) returns exactly the min(count, n) entries
\* with the largest timestamps, newest to oldest (none when the store is
\* empty or missing), and the step that reads the store leaves it as it
\* was, so a second last(count) without an insert in between returns the same.
LastReturnsNewest ==
    /\ LastIsNewestIn(dbfile, db)
    /\ [][/\ \A d \in {db'} : LastIsNewestIn(dbfile', d)
          /\ (\E p \in Procs : pc[p] = "check" /\ pc'[p] # "check") =>
                (dbfile' = dbfile /\ db' = db)]_vars

\* a decision read last(2) from a store of three or more entries
LastReturnsNewestWitness ==
    /\ JustDecided(1)
    /\ args[1].max = 2
    /\ Cardinality(DOMAIN db) >= 3
    /\ Len(Last(dbfile, db, 2)) = 2
    /\ Len(Last(dbfile, db, 4)) = Cardinality(DOMAIN db)

\* the insert of p takes the store from d0 to d1
InsertEffect(p, d0, d1, k) ==
    /\ d1[k] = args[p].entry
    /\ k \in DOMAIN d0 => DOMAIN d1 = DOMAIN d0
    /\ k \notin DOMAIN d0 => /\ DOMAIN d1 = DOMAIN d0 \cup {k}
                             /\ Cardinality(DOMAIN d1) = Cardinality(DOMAIN d0) + 1
    /\ \A o \in DOMAIN d0 \ {k} : d1[o] = d0[o]

\* C18: an insert under a key already in the store replaces the payload of
\* that key and adds no entry; an insert under a new key adds exactly one
\* entry; no step removes an entry or changes the payload of another key.
KeyCollision ==
    [][\A d \in {db'} :
          /\ DOMAIN db \subseteq DOMAIN d
          /\ \A p \in Procs :
                (pc[p] = "insert" /\ pc'[p] = "unlock") =>
                    \A k \in {hist'[cur[p]].key} : InsertEffect(p, db, d, k)
          /\ (\A p \in Procs : ~(pc[p] = "insert" /\ pc'[p] = "unlock")) => d = db]_vars

\* two calls were Admitted on the same clock reading: the store holds one
\* entry, with the payload of the second call
KeyCollisionWitness ==
    /\ Len(hist) >= 2
    /\ hist[1].result = "Admitted"
    /\ hist[2].result = "Admitted"
    /\ hist[1].key = hist[2].key
    /\ hist[1].entry # hist[2].entry
    /\ Cardinality(DOMAIN db) = 1
    /\ db[hist[2].key] = hist[2].entry

\* C19: no caller is blocked for good: whenever a caller waits in flock()
\* the lock is free or its holder is still executing the critical section
\* of limit() and will release it; a call that has ended holds no lock.
Progress ==
    \A q \in Procs :
        pc[q] = "flock" =>
            (holders = {} \/ \E h \in holders : InCritical(h))

\* positions of the audit file that hold a timestamp prefix
Stamped == {i \in 1..Len(audit) : audit[i].stamp # << >>}

\* C20 as stated: the timestamps of successive lines of the audit file are
\* non-decreasing and the lines are in the order in which their calls took
\* the lock.
AuditInLockOrder ==
    \A i \in Stamped : \A j \in Stamped :
        i < j => /\ ParseFloat(audit[i].stamp) <= ParseFloat(audit[j].stamp)
                 /\ audit[i].call <= audit[j].call

\* C20: the audit file only grows at its end: no step changes or removes
\* what it holds, and a returning call with a log path adds its write, which
\* starts with the timestamp the call holds, after everything written
\* before, whatever the order in which the calls took the lock.
AuditAppendOnly ==
    [][\A a \in {audit'} :
          /\ Len(a) >= Len(audit)
          /\ SubSeq(a, 1, Len(audit)) = audit
          /\ \A p \in Procs :
                (pc[p] = "log" /\ pc'[p] = "idle" /\ args[p].log) =>
                    /\ Len(a) > Len(audit)
                    /\ a[Len(audit) + 1].stamp = Format(tstamp[p])
                    /\ \A i \in (Len(audit) + 1)..Len(a) : a[i].call = cur[p]]_vars

\* the call that took the lock second wrote first, and the write after it
\* carries an earlier timestamp
AuditAppendOnlyWitness ==
    /\ Len(audit) = 2
    /\ audit[1].call = 2
    /\ audit[2].call = 1
    /\ ParseFloat(audit[2].stamp) < ParseFloat(audit[1].stamp)

TypeOK ==
    /\ clock \in Nat
    /\ holders \subseteq Procs
    /\ Len(hist) <= started
====
